---- MODULE Spec2Model ----
(***************************************************************************)
(* The decision node of src/drivex_decision/scripts/decision_maker.py:     *)
(* four subscriber callbacks writing the shared dict `config`, the main    *)
(* loop that displays the frame and publishes a Twist, and the shutdown    *)
(* sequence behind the "q" key.                                            *)
(*                                                                         *)
(* Units: velocities and steering angles are integers (tenths); the        *)
(* crosswalk sureness is an integer number of 1e-5 (0.85 = 85000); the     *)
(* displayed percentage is an integer number of 0.01 %.  Python strings    *)
(* typed by the operator or stored in the yaml record are sequences of     *)
(* one-character strings.                                                  *)
(***************************************************************************)
EXTENDS Integers, Sequences, FiniteSets, TLC

VARIABLES
    signal,        \* config["signal"]
    crosswalk,     \* config["crosswalk"]
    steering,      \* config["steering"]
    velocity,      \* config["velocity"]
    img_rgb,       \* config["img_rgb"]: the frame array, drawn on in place
    begin_img,     \* config["begin_img"]
    twist,         \* the Twist object of main, reused by every tick
    key,           \* the local `key` of main
    info_model,    \* info_loaded["model"], a dict of strings
    yaml_file,     \* the "model" record of the yaml file on disk
    is_shutdown,   \* rospy.is_shutdown()
    pc,            \* position of main
    msv_pc,        \* position of modelSteeringVelocityCallback
    msv_data,      \* its local data['velocity'], still to be converted
    msv_entry,     \* history: steering and velocity at the start of the running
                   \* call, kept when the call raised
    msv_result,    \* history: how the last call of the callback ended
    img_pc,        \* position of imgRgbCallback
    img_result,    \* history: how the last call of imgRgbCallback ended
    published,     \* the messages the latest step of main gave to twist_pub
    tick_pubs,     \* history: messages published since the current tick began
    tick_rule,     \* history: the disabled rule whose guard held at tick start
    tick_kind,     \* history: what the last evaluation of line 142 decided
    tick_raised,   \* history: the current tick began after a callback raised
    msv_bad,       \* history: the payload of the last call was malformed
    steps          \* history: the steps of the shutdown block done so far,
                   \* each with the text the operator typed at it

vars == <<signal, crosswalk, steering, velocity, img_rgb, begin_img, twist, key,
          info_model, yaml_file, is_shutdown, pc, msv_pc, msv_data, msv_entry,
          msv_result, img_pc, img_result, published, tick_pubs,
          tick_rule, tick_kind, tick_raised, msv_bad, steps>>

configVars == <<signal, crosswalk, steering, velocity, img_rgb, begin_img>>
msvVars == <<msv_pc, msv_data, msv_entry, msv_result, msv_bad>>
imgVars == <<img_pc, img_result>>
yamlVars == <<info_model, yaml_file>>
tickVars == <<tick_pubs, tick_rule, tick_kind, tick_raised>>

----------------------------------------------------------------------------
(* Bounds and input sets *)

MaxLen == 1

Chars == {"a", ";"}

RECURSIVE StrUpTo(_)
StrUpTo(n) ==
    IF n = 0 THEN {<<>>}
    ELSE LET shorter == StrUpTo(n - 1)
         IN  shorter \cup {Append(s, c) : s \in {t \in shorter : Len(t) = n - 1}, c \in Chars}

Texts == StrUpTo(MaxLen)

NoSignal == "<None>"
SignalVals == {"pForward", "pStop", "pChess", "pLeft"}

crosswalk_threshold == 85000
CrosswalkVals == {0, 85000, 85004}

VelocityVals == {0, 8}
SteeringVals == {-3, 0}

linear_velocity == 8

Frames == {"frame1"}
NoImage == [raw |-> "<None>", drawn |-> {}]

ord_q == 113
Keys == {-1, ord_q}

(* A field of the decoded JSON object: a number, a text that float() rejects,
   or a missing key. *)
Num(v) == [kind |-> "num", val |-> v]
TextField == [kind |-> "text", val |-> 0]
MissingField == [kind |-> "missing", val |-> 0]
NoField == [kind |-> "none", val |-> 0]

NotJson == [json |-> FALSE, steering |-> MissingField, velocity |-> MissingField]
Payloads ==
    {NotJson} \cup
    [json : {TRUE},
     steering : {Num(v) : v \in SteeringVals} \cup {TextField, MissingField},
     velocity : {Num(v) : v \in VelocityVals} \cup {TextField, MissingField}]

----------------------------------------------------------------------------
(* Pure helpers *)

(* float(data[k]): defined for a present numeric field only. *)
FloatOk(f) == f.kind = "num"
Float(f) == f.val

(* json.loads(message.data) followed by data['steering']. *)
Malformed(p) == ~p.json \/ ~FloatOk(p.steering) \/ ~FloatOk(p.velocity)

(* round(config["crosswalk"] * 100, 2), half to even, in units of 0.01 %. *)
Round2Percent(c) ==
    LET q == c \div 10
        r == c % 10
    IN  IF r > 5 \/ (r = 5 /\ q % 2 = 1) THEN q + 1 ELSE q

(* cv2.putText draws on the array it is given and returns it. *)
cv2PutText(img, text) == [img EXCEPT !.drawn = @ \cup {text}]

ZeroTwist == [lx |-> 0, ly |-> 0, lz |-> 0, ax |-> 0, ay |-> 0, az |-> 0]

(* s1 + s2 on Python strings. *)
Separator == <<";", " ">>
Suffix10 == <<"/", "1", "0">>

(* Faulty variant: the new entry replaces what the field held. *)
AppendEntry_replace(d, k, entry) ==
    [x \in DOMAIN d \cup {k} |-> IF x = k THEN entry ELSE d[x]]

(* The append of lines 182-187 and 196-201 on the dict d. *)
AppendEntry(d, k, entry) ==
    IF k \notin DOMAIN d
    THEN [x \in DOMAIN d \cup {k} |-> IF x = k THEN entry ELSE d[x]]
    ELSE [d EXCEPT ![k] = d[k] \o Separator \o entry]

(* The guards of the rules of lines 153-160, which the source keeps
   commented out; `last` is the velocity last applied. *)
RuleGuard(sig, cw, last) ==
    IF sig = "pForward" /\ last # linear_velocity THEN "pForward"
    ELSE IF sig = "pStop" /\ cw > crosswalk_threshold THEN "pStop"
    ELSE IF sig = "pChess" /\ cw > crosswalk_threshold THEN "pChess"
    ELSE "none"

(* The Twist object of main keeps the linear.x of the previous tick's
   message until line 168 overwrites it. *)
LastApplied == twist.lx

----------------------------------------------------------------------------
(* Initial state: lines 77-94, 121-123 *)

EmptyDict == [k \in {} |-> <<>>]

(* Faulty variant: the start velocity is the cruise velocity of the yaml. *)
InitWith_moving(models) ==
    /\ signal = NoSignal
    /\ crosswalk = 0
    /\ steering = 0
    /\ velocity = linear_velocity
    /\ img_rgb = NoImage
    /\ begin_img = FALSE
    /\ twist = ZeroTwist
    /\ key = -1
    /\ info_model \in models
    /\ yaml_file = info_model
    /\ is_shutdown = FALSE
    /\ pc = "while"
    /\ msv_pc = "idle"
    /\ msv_data = NoField
    /\ msv_entry = <<0, 0>>
    /\ msv_result = "none"
    /\ img_pc = "idle"
    /\ img_result = "none"
    /\ published = <<>>
    /\ tick_pubs = 0
    /\ tick_rule = "none"
    /\ tick_kind = "none"
    /\ tick_raised = FALSE
    /\ msv_bad = FALSE
    /\ steps = <<>>

InitWith(models) ==
    /\ signal = NoSignal
    /\ crosswalk = 0
    /\ steering = 0
    /\ velocity = 0
    /\ img_rgb = NoImage
    /\ begin_img = FALSE
    /\ twist = ZeroTwist
    /\ key = -1
    /\ info_model \in models
    /\ yaml_file = info_model
    /\ is_shutdown = FALSE
    /\ pc = "while"
    /\ msv_pc = "idle"
    /\ msv_data = NoField
    /\ msv_entry = <<0, 0>>
    /\ msv_result = "none"
    /\ img_pc = "idle"
    /\ img_result = "none"
    /\ published = <<>>
    /\ tick_pubs = 0
    /\ tick_rule = "none"
    /\ tick_kind = "none"
    /\ tick_raised = FALSE
    /\ msv_bad = FALSE
    /\ steps = <<>>

----------------------------------------------------------------------------
(* The subscriber callbacks.  rospy runs them on its own threads, so their
   steps interleave with those of main; calls on one topic do not overlap. *)

Terminal == {"exited", "crashed", "returned"}
Running == pc \notin Terminal
Receiving == Running /\ ~is_shutdown

(* Faulty variant: a new sign also clears the crosswalk sureness. *)
signalCallback_clears(m) ==
    /\ Receiving
    /\ signal' = m
    /\ crosswalk' = 0
    /\ UNCHANGED <<steering, velocity, img_rgb, begin_img, twist, key,
                   yamlVars, is_shutdown, pc, msvVars, imgVars, published,
                   tickVars, steps>>

(* lines 54-55 *)
signalCallback(m) ==
    /\ Receiving
    /\ signal' = m
    /\ UNCHANGED <<crosswalk, steering, velocity, img_rgb, begin_img, twist, key,
                   yamlVars, is_shutdown, pc, msvVars, imgVars, published,
                   tickVars, steps>>

(* lines 50-51 *)
crosswalkSurenessCallback(m) ==
    /\ Receiving
    /\ crosswalk' = m
    /\ UNCHANGED <<signal, steering, velocity, img_rgb, begin_img, twist, key,
                   yamlVars, is_shutdown, pc, msvVars, imgVars, published,
                   tickVars, steps>>

(* Faulty variant: the decode sits in a try/except that swallows the error. *)
msvSteering_swallow(p) ==
    /\ Receiving
    /\ msv_pc = "idle"
    /\ msv_bad' = Malformed(p)
    /\ msv_entry' = <<steering, velocity>>
    /\ IF p.json /\ FloatOk(p.steering)
       THEN /\ steering' = Float(p.steering)
            /\ msv_pc' = "velocity"
            /\ msv_data' = p.velocity
            /\ UNCHANGED msv_result
       ELSE /\ msv_result' = "returned"
            /\ UNCHANGED <<steering, msv_pc, msv_data>>
    /\ UNCHANGED <<signal, crosswalk, velocity, img_rgb, begin_img, twist, key,
                   yamlVars, is_shutdown, pc, imgVars, published, tickVars, steps>>

(* lines 45-46: json.loads, data['steering'], float, the store into
   config["steering"]; any of the first three may raise. *)
msvSteering(p) ==
    /\ Receiving
    /\ msv_pc = "idle"
    /\ msv_bad' = Malformed(p)
    /\ msv_entry' = <<steering, velocity>>
    /\ IF p.json /\ FloatOk(p.steering)
       THEN /\ steering' = Float(p.steering)
            /\ msv_pc' = "velocity"
            /\ msv_data' = p.velocity
            /\ UNCHANGED msv_result
       ELSE /\ msv_result' = "raised"
            /\ UNCHANGED <<steering, msv_pc, msv_data>>
    /\ UNCHANGED <<signal, crosswalk, velocity, img_rgb, begin_img, twist, key,
                   yamlVars, is_shutdown, pc, imgVars, published, tickVars, steps>>

(* line 47: data['velocity'], float, the store into config["velocity"]. *)
msvVelocity ==
    /\ Running
    /\ msv_pc = "velocity"
    /\ IF FloatOk(msv_data)
       THEN /\ velocity' = Float(msv_data)
            /\ msv_result' = "returned"
            /\ msv_entry' = <<0, 0>>
       ELSE /\ msv_result' = "raised"
            /\ UNCHANGED <<velocity, msv_entry>>
    /\ msv_pc' = "idle"
    /\ msv_data' = NoField
    /\ UNCHANGED <<signal, crosswalk, steering, img_rgb, begin_img, twist, key,
                   yamlVars, is_shutdown, pc, msv_bad, imgVars, published,
                   tickVars, steps>>

(* Faulty variant: the callback clears begin_img while it decodes. *)
imgRgbDecode_reset(f, ok) ==
    /\ Receiving
    /\ img_pc = "idle"
    /\ begin_img' = FALSE
    /\ IF ok
       THEN /\ img_rgb' = [raw |-> f, drawn |-> {}]
            /\ img_pc' = "begin_img"
            /\ UNCHANGED img_result
       ELSE /\ img_result' = "raised"
            /\ UNCHANGED <<img_rgb, img_pc>>
    /\ UNCHANGED <<signal, crosswalk, steering, velocity, twist, key,
                   yamlVars, is_shutdown, pc, msvVars, published, tickVars, steps>>

(* Faulty variant: a failed decode is swallowed and line 61 still runs. *)
imgRgbDecode_flag(f, ok) ==
    /\ Receiving
    /\ img_pc = "idle"
    /\ IF ok
       THEN /\ img_rgb' = [raw |-> f, drawn |-> {}]
            /\ UNCHANGED img_result
       ELSE /\ img_result' = "raised"
            /\ UNCHANGED img_rgb
    /\ img_pc' = "begin_img"
    /\ UNCHANGED <<signal, crosswalk, steering, velocity, begin_img, twist, key,
                   yamlVars, is_shutdown, pc, msvVars, published, tickVars, steps>>

(* line 59: imgmsg_to_cv2 returns a fresh array or raises CvBridgeError. *)
imgRgbDecode(f, ok) ==
    /\ Receiving
    /\ img_pc = "idle"
    /\ IF ok
       THEN /\ img_rgb' = [raw |-> f, drawn |-> {}]
            /\ img_pc' = "begin_img"
            /\ UNCHANGED img_result
       ELSE /\ img_result' = "raised"
            /\ UNCHANGED <<img_rgb, img_pc>>
    /\ UNCHANGED <<signal, crosswalk, steering, velocity, begin_img, twist, key,
                   yamlVars, is_shutdown, pc, msvVars, published, tickVars, steps>>

(* line 61 *)
imgRgbBegin ==
    /\ Running
    /\ img_pc = "begin_img"
    /\ begin_img' = TRUE
    /\ img_pc' = "idle"
    /\ img_result' = "returned"
    /\ UNCHANGED <<signal, crosswalk, steering, velocity, img_rgb, twist, key,
                   yamlVars, is_shutdown, pc, msvVars, published, tickVars, steps>>

(* An external shutdown request to the node. *)
RosShutdown ==
    /\ Receiving
    /\ is_shutdown' = TRUE
    /\ UNCHANGED <<configVars, twist, key, yamlVars, pc, msvVars, imgVars,
                   published, tickVars, steps>>

----------------------------------------------------------------------------
(* main: the loop of lines 141-214.  Every step of main replaces `published`
   by what that step itself publishes. *)

(* Faulty variant: the loop waits for a frame to be stored, not for begin_img. *)
SkipTick_frame == img_rgb = NoImage

(* line 142 *)
SkipTick == begin_img = FALSE

(* lines 141-143 *)
LoopWhile ==
    /\ pc = "while"
    /\ published' = <<>>
    /\ IF is_shutdown
       THEN /\ pc' = "returned"
            /\ UNCHANGED tickVars
       ELSE IF SkipTick
       THEN /\ pc' = "while"
            /\ tick_kind' = "idle"
            /\ UNCHANGED <<tick_pubs, tick_rule, tick_raised>>
       ELSE /\ pc' = "overlay"
            /\ tick_kind' = "active"
            /\ tick_pubs' = 0
            /\ tick_rule' = RuleGuard(signal, crosswalk, LastApplied)
            /\ tick_raised' = (msv_result = "raised")
    /\ UNCHANGED <<configVars, twist, key, yamlVars, is_shutdown, msvVars,
                   imgVars, steps>>

(* Faulty variant: the tick consumes begin_img once it has shown the frame. *)
LoopOverlay_consume(k) ==
    /\ pc = "overlay"
    /\ published' = <<>>
    /\ IF img_rgb = NoImage
       THEN /\ pc' = "crashed"
            /\ UNCHANGED <<img_rgb, key, begin_img>>
       ELSE /\ img_rgb' = cv2PutText(img_rgb, Round2Percent(crosswalk))
            /\ begin_img' = FALSE
            /\ key' = k
            /\ pc' = "set_linear"
    /\ UNCHANGED <<signal, crosswalk, steering, velocity, twist,
                   yamlVars, is_shutdown, msvVars, imgVars, tickVars, steps>>

(* lines 145-150: the overlay is drawn on config["img_rgb"] itself; a None
   frame has no shape and raises. *)
LoopOverlay(k) ==
    /\ pc = "overlay"
    /\ published' = <<>>
    /\ IF img_rgb = NoImage
       THEN /\ pc' = "crashed"
            /\ UNCHANGED <<img_rgb, key>>
       ELSE /\ img_rgb' = cv2PutText(img_rgb, Round2Percent(crosswalk))
            /\ key' = k
            /\ pc' = "set_linear"
    /\ UNCHANGED <<signal, crosswalk, steering, velocity, begin_img, twist,
                   yamlVars, is_shutdown, msvVars, imgVars, tickVars, steps>>

(* Faulty variant: linear.x is taken from the steering field. *)
LoopSetLinear_steering ==
    /\ pc = "set_linear"
    /\ published' = <<>>
    /\ twist' = [twist EXCEPT !.lx = steering, !.ly = 0, !.lz = 0, !.ax = 0, !.ay = 0]
    /\ pc' = "set_angular"
    /\ UNCHANGED <<configVars, key, yamlVars, is_shutdown, msvVars, imgVars,
                   tickVars, steps>>

(* Faulty variant: line 169 stores the velocity instead of 0. *)
LoopSetLinear_lateral ==
    /\ pc = "set_linear"
    /\ published' = <<>>
    /\ twist' = [twist EXCEPT !.lx = velocity, !.ly = velocity, !.lz = 0, !.ax = 0, !.ay = 0]
    /\ pc' = "set_angular"
    /\ UNCHANGED <<configVars, key, yamlVars, is_shutdown, msvVars, imgVars,
                   tickVars, steps>>

(* Faulty variant: the rule of lines 153-155 is enabled and feeds the message. *)
LoopSetLinear_pForward ==
    /\ pc = "set_linear"
    /\ published' = <<>>
    /\ twist' = [twist EXCEPT
                    !.lx = IF signal = "pForward" /\ twist.lx # linear_velocity
                           THEN linear_velocity ELSE velocity,
                    !.ly = 0, !.lz = 0, !.ax = 0, !.ay = 0]
    /\ pc' = "set_angular"
    /\ UNCHANGED <<configVars, key, yamlVars, is_shutdown, msvVars, imgVars,
                   tickVars, steps>>

(* Faulty variant: the rule of lines 156-159 is enabled and feeds the message. *)
LoopSetLinear_pStop ==
    /\ pc = "set_linear"
    /\ published' = <<>>
    /\ twist' = [twist EXCEPT
                    !.lx = IF signal = "pStop" /\ crosswalk > crosswalk_threshold
                           THEN 0 ELSE velocity,
                    !.ly = 0, !.lz = 0, !.ax = 0, !.ay = 0]
    /\ pc' = "set_angular"
    /\ UNCHANGED <<configVars, key, yamlVars, is_shutdown, msvVars, imgVars,
                   tickVars, steps>>

(* lines 168-172 *)
LoopSetLinear ==
    /\ pc = "set_linear"
    /\ published' = <<>>
    /\ twist' = [twist EXCEPT !.lx = velocity, !.ly = 0, !.lz = 0, !.ax = 0, !.ay = 0]
    /\ pc' = "set_angular"
    /\ UNCHANGED <<configVars, key, yamlVars, is_shutdown, msvVars, imgVars,
                   tickVars, steps>>

(* Faulty variant: the rule of lines 160-165 is enabled. *)
LoopSetAngular_pChess ==
    /\ pc = "set_angular"
    /\ published' = <<>>
    /\ twist' = [twist EXCEPT !.az = steering]
    /\ pc' = IF key = ord_q \/ (signal = "pChess" /\ crosswalk > crosswalk_threshold)
             THEN "gracefulStop" ELSE "publish"
    /\ UNCHANGED <<configVars, key, yamlVars, is_shutdown, msvVars, imgVars,
                   tickVars, steps>>

(* lines 173-176 *)
LoopSetAngular ==
    /\ pc = "set_angular"
    /\ published' = <<>>
    /\ twist' = [twist EXCEPT !.az = steering]
    /\ pc' = IF key = ord_q THEN "gracefulStop" ELSE "publish"
    /\ UNCHANGED <<configVars, key, yamlVars, is_shutdown, msvVars, imgVars,
                   tickVars, steps>>

(* lines 212-214 *)
LoopPublish ==
    /\ pc = "publish"
    /\ published' = <<twist>>
    /\ tick_pubs' = tick_pubs + 1
    /\ pc' = "while"
    /\ UNCHANGED <<configVars, twist, key, yamlVars, is_shutdown, msvVars,
                   imgVars, tick_rule, tick_kind, tick_raised, steps>>

----------------------------------------------------------------------------
(* main: the shutdown block of lines 176-209 *)

(* Faulty variant: line 71 is missing. *)
gracefulStop_keepsSpeed ==
    /\ pc = "gracefulStop"
    /\ twist' = [twist EXCEPT !.az = 0]
    /\ published' = <<twist'>>
    /\ tick_pubs' = tick_pubs + 1
    /\ steps' = Append(steps, <<"gracefulStop", <<>>>>)
    /\ pc' = "comments"
    /\ UNCHANGED <<configVars, key, yamlVars, is_shutdown, msvVars, imgVars,
                   tick_rule, tick_kind, tick_raised>>

(* lines 64-73, called at line 177 *)
gracefulStop ==
    /\ pc = "gracefulStop"
    /\ twist' = [twist EXCEPT !.lx = 0, !.az = 0]
    /\ published' = <<twist'>>
    /\ tick_pubs' = tick_pubs + 1
    /\ steps' = Append(steps, <<"gracefulStop", <<>>>>)
    /\ pc' = "comments"
    /\ UNCHANGED <<configVars, key, yamlVars, is_shutdown, msvVars, imgVars,
                   tick_rule, tick_kind, tick_raised>>

(* lines 181-187 *)
RecordComments(comments) ==
    /\ pc = "comments"
    /\ published' = <<>>
    /\ info_model' = AppendEntry(info_model, "driving_comments", comments)
    /\ steps' = Append(steps, <<"comments", comments>>)
    /\ pc' = "model_eval"
    /\ UNCHANGED <<configVars, twist, key, yaml_file, is_shutdown, msvVars,
                   imgVars, tickVars>>

(* Faulty variant: the block exits without saving the yaml. *)
RecordEval_noSave(rating) ==
    /\ pc = "model_eval"
    /\ published' = <<>>
    /\ info_model' = AppendEntry(info_model, "driving_model_eval", rating \o Suffix10)
    /\ steps' = Append(steps, <<"model_eval", rating>>)
    /\ pc' = "exit"
    /\ UNCHANGED <<configVars, twist, key, yaml_file, is_shutdown, msvVars,
                   imgVars, tickVars>>

(* lines 190-201 *)
RecordEval(rating) ==
    /\ pc = "model_eval"
    /\ published' = <<>>
    /\ info_model' = AppendEntry(info_model, "driving_model_eval", rating \o Suffix10)
    /\ steps' = Append(steps, <<"model_eval", rating>>)
    /\ pc' = "save"
    /\ UNCHANGED <<configVars, twist, key, yaml_file, is_shutdown, msvVars,
                   imgVars, tickVars>>

(* Faulty variant: the write sits in a try/except and main goes on to exit(0). *)
SaveYaml_swallow(outcome) ==
    /\ pc = "save"
    /\ published' = <<>>
    /\ yaml_file' = CASE outcome = "written" -> info_model
                      [] outcome = "open_failed" -> yaml_file
                      [] outcome = "dump_failed" -> [k \in {} |-> <<>>]
    /\ steps' = Append(steps, <<IF outcome = "written" THEN "save" ELSE "save_failed", <<>>>>)
    /\ pc' = "exit"
    /\ UNCHANGED <<configVars, twist, key, info_model, is_shutdown, msvVars,
                   imgVars, tickVars>>

(* lines 204-207: open(..., "w") may raise before the file is touched, and
   yaml.dump may raise after open has truncated it. *)
SaveOutcomes == {"written", "open_failed", "dump_failed"}

SaveYaml(outcome) ==
    /\ pc = "save"
    /\ published' = <<>>
    /\ yaml_file' = CASE outcome = "written" -> info_model
                      [] outcome = "open_failed" -> yaml_file
                      [] outcome = "dump_failed" -> EmptyDict
    /\ steps' = Append(steps, <<IF outcome = "written" THEN "save" ELSE "save_failed", <<>>>>)
    /\ pc' = IF outcome = "written" THEN "exit" ELSE "crashed"
    /\ UNCHANGED <<configVars, twist, key, info_model, is_shutdown, msvVars,
                   imgVars, tickVars>>

(* line 209 *)
Exit ==
    /\ pc = "exit"
    /\ published' = <<>>
    /\ steps' = Append(steps, <<"exit", <<>>>>)
    /\ pc' = "exited"
    /\ UNCHANGED <<configVars, twist, key, yamlVars, is_shutdown, msvVars,
                   imgVars, tickVars>>

----------------------------------------------------------------------------
(* Specifications *)

(* The yaml record as the node finds it: each field absent or a string. *)
Dicts(texts) ==
    UNION {[ks -> texts] : ks \in SUBSET {"driving_comments", "driving_model_eval"}}

WellFormed == {p \in Payloads : ~Malformed(p)}

(* The control loop with the four callbacks delivering well-formed messages,
   an external shutdown request, and the shutdown block; the yaml record
   starts with one comment. *)
InitialModel == [driving_comments |-> <<"a">>]

Init == InitWith({InitialModel})

Next ==
    \/ \E m \in SignalVals : signalCallback(m)
    \/ \E m \in CrosswalkVals : crosswalkSurenessCallback(m)
    \/ \E p \in WellFormed : msvSteering(p)
    \/ msvVelocity
    \/ \E f \in Frames : imgRgbDecode(f, TRUE)
    \/ imgRgbBegin
    \/ RosShutdown
    \/ LoopWhile
    \/ \E k \in Keys : LoopOverlay(k)
    \/ LoopSetLinear
    \/ LoopSetAngular
    \/ LoopPublish
    \/ gracefulStop
    \/ \E c \in {<<"a">>} : RecordComments(c)
    \/ \E r \in {<<"a">>} : RecordEval(r)
    \/ \E o \in SaveOutcomes : SaveYaml(o)
    \/ Exit

Spec == Init /\ [][Next]_vars

(* The shutdown block over every yaml record and every typed text up to
   MaxLen characters, behind a loop that only receives frames. *)
InitYaml == InitWith(Dicts(Texts))

NextYaml ==
    \/ \E f \in Frames : imgRgbDecode(f, TRUE)
    \/ imgRgbBegin
    \/ LoopWhile
    \/ \E k \in Keys : LoopOverlay(k)
    \/ LoopSetLinear
    \/ LoopSetAngular
    \/ LoopPublish
    \/ gracefulStop
    \/ \E c \in Texts : RecordComments(c)
    \/ \E r \in Texts : RecordEval(r)
    \/ \E o \in SaveOutcomes : SaveYaml(o)
    \/ Exit

SpecYaml == InitYaml /\ [][NextYaml]_vars

(* The loop with the steering/velocity and frame callbacks receiving every
   payload, malformed ones and undecodable frames included, and with an
   external shutdown request. *)
NextDecode ==
    \/ \E p \in Payloads : msvSteering(p)
    \/ msvVelocity
    \/ \E f \in Frames, ok \in BOOLEAN : imgRgbDecode(f, ok)
    \/ imgRgbBegin
    \/ RosShutdown
    \/ LoopWhile
    \/ \E k \in Keys : LoopOverlay(k)
    \/ LoopSetLinear
    \/ LoopSetAngular
    \/ LoopPublish
    \/ gracefulStop
    \/ \E c \in {<<"a">>} : RecordComments(c)
    \/ \E r \in {<<"a">>} : RecordEval(r)
    \/ \E o \in SaveOutcomes : SaveYaml(o)
    \/ Exit

SpecDecode == Init /\ [][NextDecode]_vars

(* The loop with frames and two steering/velocity messages, (-3, 8) and
   (0, 0), whose callback steps interleave with the reads of lines 168 and
   173; no key is pressed. *)
SnapshotPayloads ==
    {[json |-> TRUE, steering |-> Num(-3), velocity |-> Num(8)],
     [json |-> TRUE, steering |-> Num(0), velocity |-> Num(0)]}

NextSnapshot ==
    \/ \E p \in SnapshotPayloads : msvSteering(p)
    \/ msvVelocity
    \/ \E f \in Frames : imgRgbDecode(f, TRUE)
    \/ imgRgbBegin
    \/ LoopWhile
    \/ LoopOverlay(-1)
    \/ LoopSetLinear
    \/ LoopSetAngular
    \/ LoopPublish

SpecSnapshot == Init /\ [][NextSnapshot]_vars

----------------------------------------------------------------------------
(* Properties *)

Published == published # <<>>
LoopPublished == pc = "while" /\ Published
Command(v, s) == [ZeroTwist EXCEPT !.lx = v, !.az = s]

(* C1: while begin_img is still False nothing has been published, neither by
   the loop nor by gracefulStop, whatever the other callbacks have stored. *)
C1_IdleGating ==
    begin_img = FALSE => published = <<>> /\ tick_pubs = 0 /\ steps = <<>>

C1_Witness ==
    /\ begin_img = FALSE
    /\ tick_kind = "idle"
    /\ signal = "pChess"
    /\ crosswalk > crosswalk_threshold
    /\ velocity = 8
    /\ steering = -3
    /\ published = <<>>

(* C2: on the tick that sees the "q" key exactly one message is published, it
   is the all-zero Twist, it is published by gracefulStop, and nothing is
   published afterwards up to the end of the process. *)
C2_AbortStop ==
    /\ pc = "gracefulStop" => tick_pubs = 0 /\ published = <<>>
    /\ pc = "comments" => tick_pubs = 1 /\ published = <<ZeroTwist>>
    /\ (steps # <<>> /\ pc # "comments") => tick_pubs = 1 /\ published = <<>>

C2_Witness ==
    /\ pc = "exited"
    /\ tick_pubs = 1
    /\ twist = ZeroTwist
    /\ velocity = 8
    /\ steering = -3

(* The steps of a tick whose start found the guard `rule`: line 168 copies
   config["velocity"], line 173 copies config["steering"], no callback touches
   the Twist in between, and line 212 publishes that Twist once and goes back
   to line 141. *)
PassThrough(rule) ==
    /\ (pc = "set_linear" /\ pc' # pc /\ tick_rule = rule)
           => twist' = Command(velocity, twist.az)
    /\ (pc = "set_angular" /\ pc' # pc /\ tick_rule = rule)
           => twist' = [twist EXCEPT !.az = steering]
    /\ (pc \in {"set_angular", "publish"} /\ pc' = pc /\ tick_rule = rule)
           => twist' = twist
    /\ (pc = "publish" /\ pc' # pc /\ tick_rule = rule)
           => published' = <<twist>> /\ twist' = twist /\ tick_pubs' = 1 /\ pc' = "while"

(* C3: on an active tick that starts with no rule guard true and sees no "q"
   key, the message published has linear.x = the velocity and angular.z = the
   steering that the model callback had last stored when lines 168 and 173
   read them. *)
C3_PassThrough == [][PassThrough("none")]_vars

C3_Witness ==
    /\ LoopPublished
    /\ tick_rule = "none"
    /\ signal = "pLeft"
    /\ published = <<Command(8, -3)>>

(* C4 as claimed: a tick that starts with pForward and a last-applied velocity
   other than linear_velocity publishes linear.x = linear_velocity. *)
C4_CruiseResume_Claimed ==
    (LoopPublished /\ tick_rule = "pForward") => published[1].lx = linear_velocity

(* C4 as amended: a tick that starts with pForward and a last-applied velocity
   other than linear_velocity publishes the velocity the model callback last
   stored, as every other tick does; linear_velocity is not used. *)
C4_CruiseResume == [][PassThrough("pForward")]_vars

C4_Witness ==
    /\ LoopPublished
    /\ tick_rule = "pForward"
    /\ signal = "pForward"
    /\ published[1].lx = 0
    /\ published[1].lx # linear_velocity

(* C5 as claimed: a tick that starts with pStop and a crosswalk sureness above
   the threshold publishes linear.x = 0 next. *)
C5_CrosswalkStop_Claimed ==
    (LoopPublished /\ tick_rule = "pStop") => published[1].lx = 0

(* C5 as amended: a tick that starts with pStop and a crosswalk sureness above
   the threshold publishes, in that same tick, the velocity and the steering
   the model callback last stored. *)
C5_CrosswalkStop == [][PassThrough("pStop")]_vars

C5_Witness ==
    /\ LoopPublished
    /\ tick_rule = "pStop"
    /\ signal = "pStop"
    /\ crosswalk > crosswalk_threshold
    /\ published = <<Command(8, -3)>>

(* C6 as claimed: a tick that starts with pChess and a crosswalk sureness
   above the threshold publishes the all-zero Twist and enters the shutdown
   block. *)
C6_ChessTermination_Claimed ==
    (Published /\ tick_rule = "pChess") => published = <<ZeroTwist>> /\ pc = "comments"

(* C6 as amended: a tick that starts with pChess and a crosswalk sureness
   above the threshold publishes the velocity and the steering the model
   callback last stored and goes on to the next tick; main enters the
   shutdown block only when the tick has read the "q" key. *)
C6_ChessTermination ==
    [][/\ PassThrough("pChess")
       /\ (pc' = "gracefulStop" /\ pc # "gracefulStop") => key = ord_q]_vars

C6_Witness ==
    /\ LoopPublished
    /\ tick_rule = "pChess"
    /\ signal = "pChess"
    /\ crosswalk > crosswalk_threshold
    /\ published = <<Command(8, -3)>>
    /\ steps = <<>>

(* What the record must hold in field k after `entry` was appended to `old`. *)
Appended(old, k, entry) ==
    IF k \in DOMAIN old THEN old[k] \o <<";", " ">> \o entry ELSE entry

IsPrefix(a, b) == Len(a) <= Len(b) /\ SubSeq(b, 1, Len(a)) = a

KeptAsPrefix(old, new, k) ==
    k \in DOMAIN new /\ (k \in DOMAIN old => IsPrefix(old[k], new[k]))

(* C7: the shutdown block sets driving_comments to the typed comment when the
   field is absent and to old + "; " + comment otherwise; the same for
   driving_model_eval with the typed rating followed by "/10"; the old content
   stays a prefix, the other field is left alone, and the record written to
   the file is that record. *)
C7_MetadataAppend ==
    /\ pc \in {"model_eval", "save"} =>
          /\ info_model["driving_comments"]
                 = Appended(yaml_file, "driving_comments", steps[2][2])
          /\ KeptAsPrefix(yaml_file, info_model, "driving_comments")
    /\ pc = "model_eval" =>
          /\ ("driving_model_eval" \in DOMAIN info_model)
                 = ("driving_model_eval" \in DOMAIN yaml_file)
          /\ "driving_model_eval" \in DOMAIN yaml_file
                 => info_model["driving_model_eval"] = yaml_file["driving_model_eval"]
    /\ pc = "save" =>
          /\ info_model["driving_model_eval"]
                 = Appended(yaml_file, "driving_model_eval", steps[3][2] \o <<"/", "1", "0">>)
          /\ KeptAsPrefix(yaml_file, info_model, "driving_model_eval")
    /\ pc \in {"exit", "exited"} => yaml_file = info_model

C7_Witness ==
    /\ pc = "exited"
    /\ yaml_file["driving_comments"] = <<"a", ";", " ", ";">>
    /\ yaml_file["driving_model_eval"] = <<"a", "/", "1", "0">>

(* C8: when a call of modelSteeringVelocityCallback has raised, steering and
   velocity hold the values they had when the call started. *)
C8_DecodeKeepsState ==
    (msv_pc = "idle" /\ msv_result = "raised") => <<steering, velocity>> = msv_entry

(* C9 as claimed: no call of modelSteeringVelocityCallback ends by raising. *)
C9_NoRaise_Claimed == msv_result # "raised"

(* C9 as amended: a call of modelSteeringVelocityCallback ends by raising
   exactly when its payload is malformed, and the callback's steps, the
   raising ones included, leave main where it is: the position of main, its
   key and its Twist are not changed, and no shutdown is requested. *)
C9_RaiseLeavesLoop ==
    /\ []((msv_pc = "idle" /\ msv_result # "none") => (msv_result = "raised") = msv_bad)
    /\ [][(msvVars' # msvVars) => UNCHANGED <<pc, key, twist, is_shutdown, published, tick_pubs>>]_vars

C9_Witness ==
    /\ tick_raised
    /\ msv_result = "raised"
    /\ LoopPublished
    /\ tick_pubs = 1

StepNames == [i \in 1..Len(steps) |-> steps[i][1]]
ShutdownOrder == <<"gracefulStop", "comments", "model_eval", "save", "exit">>
StepsDoneAt ==
    [p \in {"gracefulStop", "comments", "model_eval", "save", "exit", "exited"} |->
        CASE p = "gracefulStop" -> 0
          [] p = "comments" -> 1
          [] p = "model_eval" -> 2
          [] p = "save" -> 3
          [] p = "exit" -> 4
          [] p = "exited" -> 5]

(* C10: the shutdown block publishes the stop, records the comments, records
   the rating, writes the yaml and exits, in this order, each step once and
   after the one before it; the file is untouched until both texts have been
   typed. *)
C10_ShutdownOrder ==
    /\ \/ IsPrefix(StepNames, ShutdownOrder)
       \/ (pc = "crashed" /\ StepNames = <<"gracefulStop", "comments", "model_eval", "save_failed">>)
    /\ pc \in DOMAIN StepsDoneAt => Len(steps) = StepsDoneAt[pc]
    /\ steps # <<>> => pc \in DOMAIN StepsDoneAt \cup {"crashed"}
    /\ steps # <<>> => tick_pubs = 1
    /\ Len(steps) < 4 => yaml_file = InitialModel

C10_Witness ==
    /\ pc = "exited"
    /\ StepNames = ShutdownOrder
    /\ yaml_file # InitialModel
    /\ yaml_file = info_model

SaveFailed == steps # <<>> /\ steps[Len(steps)][1] = "save_failed"

(* C11: when the write of the yaml fails, the stop has been published before,
   nothing is published after, the failure is the last step of main (no
   retry, no exit(0)): main ends by the exception, and the file does not hold
   the operator's texts. *)
C11_PersistenceFailure ==
    /\ \A i \in 1..Len(steps) : steps[i][1] = "save_failed" => i = Len(steps)
    /\ SaveFailed =>
          /\ pc = "crashed"
          /\ StepNames = <<"gracefulStop", "comments", "model_eval", "save_failed">>
          /\ tick_pubs = 1
          /\ published = <<>>
          /\ yaml_file \in {InitialModel, EmptyDict}
          /\ yaml_file # info_model

C11_Witness ==
    /\ SaveFailed
    /\ pc = "crashed"
    /\ yaml_file = EmptyDict
    /\ twist = ZeroTwist

(* C12: every message published, the stop included, has linear.y, linear.z,
   angular.x and angular.y equal to 0. *)
C12_CommandShape ==
    Published =>
        /\ Len(published) = 1
        /\ published[1].ly = 0
        /\ published[1].lz = 0
        /\ published[1].ax = 0
        /\ published[1].ay = 0

C12_Witness ==
    /\ LoopPublished
    /\ tick_pubs = 1
    /\ published[1].lx = 8
    /\ published[1].az = -3
    /\ published[1].ly = 0
    /\ signal = "pForward"

(* The (velocity, steering) pairs that one message, or the start values of
   lines 90 and 92, carry under SpecSnapshot. *)
CoherentPairs ==
    {<<0, 0>>} \cup {<<Float(p.velocity), Float(p.steering)>> : p \in SnapshotPayloads}

(* C13: every message the loop publishes carries the velocity and the
   steering of one and the same steering/velocity message, or the start
   values. *)
C13_SnapshotConsistency ==
    LoopPublished => <<published[1].lx, published[1].az>> \in CoherentPairs

(* A step that changes config while main stays where it is: a callback step. *)
CallbackWrite == pc' = pc /\ configVars' # configVars

(* C14: a callback step changes one slot of config only (signal; crosswalk;
   steering and velocity; img_rgb and begin_img), steering and velocity change
   only in steps of modelSteeringVelocityCallback, begin_img only in steps of
   imgRgbCallback, and no callback step publishes or touches what main owns. *)
C14_HandlerFrame ==
    [][/\ CallbackWrite =>
            /\ \/ UNCHANGED <<crosswalk, steering, velocity, img_rgb, begin_img>>
               \/ UNCHANGED <<signal, steering, velocity, img_rgb, begin_img>>
               \/ UNCHANGED <<signal, crosswalk, img_rgb, begin_img>>
               \/ UNCHANGED <<signal, crosswalk, steering, velocity>>
            /\ UNCHANGED <<twist, key, published, tick_pubs, yamlVars, is_shutdown, steps>>
       /\ msvVars' # msvVars => UNCHANGED <<signal, crosswalk, img_rgb, begin_img, pc>>
       /\ imgVars' # imgVars => UNCHANGED <<signal, crosswalk, steering, velocity, pc>>
       /\ <<steering, velocity>>' # <<steering, velocity>> => msvVars' # msvVars
       /\ begin_img' # begin_img => imgVars' # imgVars
       /\ (img_rgb' # img_rgb /\ pc' = pc) => imgVars' # imgVars]_vars

C14_Witness ==
    /\ signal = "pLeft"
    /\ crosswalk = 85004
    /\ steering = -3
    /\ velocity = 8
    /\ begin_img
    /\ msv_result = "returned"
    /\ img_result = "returned"
    /\ tick_kind # "active"
    /\ published = <<>>
    /\ tick_pubs = 0
    /\ twist = ZeroTwist

(* C15 as claimed: the stored frame is always as imgRgbCallback stored it
   (nothing drawn on it), or still None. *)
C15_FrameUntouched_Claimed == img_rgb.drawn = {}

(* C15 as amended: a step of main leaves signal, crosswalk, steering, velocity
   and begin_img unchanged and never replaces the stored frame; the only
   change it makes is that lines 145-148 draw the percentage text of the tick
   on the stored frame itself, so the texts add up until a new frame comes. *)
C15_LoopFrame ==
    [][pc' # pc =>
          /\ UNCHANGED <<signal, crosswalk, steering, velocity, begin_img>>
          /\ img_rgb'.raw = img_rgb.raw
          /\ img_rgb'.drawn =
                 IF pc = "overlay" /\ img_rgb # NoImage
                 THEN img_rgb.drawn \cup {Round2Percent(crosswalk)}
                 ELSE img_rgb.drawn]_vars

C15_Witness ==
    /\ pc = "while"
    /\ img_pc = "idle"
    /\ img_rgb.raw = "frame1"
    /\ img_rgb.drawn = {0, 8500}
    /\ begin_img

ShuttingDown == pc \in {"gracefulStop", "comments", "model_eval", "save", "exit"}

(* C16: begin_img never goes back to False, a loop that has run an active
   tick never runs an idle one, the shutdown block is left only by the end of
   the process, nothing is published after its stop, and an ended process
   takes no step. *)
C16_Lifecycle ==
    [][/\ begin_img => begin_img'
       /\ tick_kind = "active" => tick_kind' = "active"
       /\ ShuttingDown => (ShuttingDown' \/ pc' \in Terminal)
       /\ (ShuttingDown /\ pc # "gracefulStop") =>
              (tick_pubs' = tick_pubs /\ (pc' # pc => published' = <<>>))
       /\ pc \in Terminal => UNCHANGED vars]_vars

C16_Witness ==
    /\ pc = "exited"
    /\ begin_img
    /\ tick_kind = "active"
    /\ img_pc = "begin_img"
    /\ tick_pubs = 1

StartDefaults ==
    /\ signal = NoSignal
    /\ crosswalk = 0
    /\ velocity = 0
    /\ steering = 0
    /\ begin_img = FALSE

(* No call of modelSteeringVelocityCallback has started yet. *)
NoModelMessage == msv_result = "none" /\ msv_pc = "idle"

(* C17: config starts with crosswalk = 0, velocity = 0, steering = 0,
   begin_img = False and no signal, and as long as no steering/velocity
   message has come, every message published is the all-zero Twist. *)
C17_StartupDefaults ==
    /\ StartDefaults
    /\ [](NoModelMessage =>
             /\ velocity = 0
             /\ steering = 0
             /\ Published => published = <<ZeroTwist>>)

C17_Witness ==
    /\ NoModelMessage
    /\ LoopPublished
    /\ published = <<ZeroTwist>>
    /\ signal = "pForward"
    /\ crosswalk > crosswalk_threshold

(* C18: whenever begin_img is True a decoded frame is stored, so the tick
   that passed line 142 finds a frame at lines 146-149 and main never ends by
   drawing on None; a decode that fails before any has succeeded leaves
   begin_img False. *)
C18_FrameAvailable ==
    /\ begin_img => img_rgb # NoImage
    /\ pc \in {"overlay", "set_linear", "set_angular", "publish"} => img_rgb # NoImage
    /\ pc = "crashed" => SaveFailed

C18_Witness ==
    /\ img_result = "raised"
    /\ img_pc = "idle"
    /\ begin_img = FALSE
    /\ img_rgb = NoImage
    /\ tick_kind = "idle"

====
